---- MODULE Spec2Model ----
(***************************************************************************)
(* A model of libaio-win32 (src/libaio_win32.cpp, src/libaio_win32.h): the *)
(* Linux libaio API implemented on a Windows I/O completion port.          *)
(*                                                                         *)
(* The state is the heap of the library (WinAioRequest records and         *)
(* VectoredRequestGroup aggregators), the completion port's queue, the     *)
(* caller's iocbs, and the position of every thread that is inside         *)
(* io_getevents.  io_submit is one action (the whole loop over the batch); *)
(* io_getevents is one action per atomic access to shared state: the       *)
(* dequeue, which for a vectored segment is followed by the fetch_add or   *)
(* compare_exchange on the aggregator, and then the fetch_add on           *)
(* completed_segments.  What the operating system decides (whether a       *)
(* handle resolves, whether a native call is issued, how and when a        *)
(* request completes, whether a wait fails) is drawn from small sets.      *)
(*                                                                         *)
(* Byte counts are counted in units of 2^30 bytes, so that a DWORD or a    *)
(* 32-bit unsigned long (Windows is LLP64) holds 0..3 and wraps modulo 4.  *)
(***************************************************************************)
EXTENDS Integers, Sequences, FiniteSets, TLC

-----------------------------------------------------------------------------
(* Bounds of the model.                                                    *)

\* iocbs submitted over a whole run: of the specification with two threads in
\* io_getevents, and of the one with one thread and longer batches
MaxOps == 1
MaxBatchOps == MaxOps + 1
\* the largest nr given to io_getevents, in the two specifications
MaxNr == 1
MaxBatchNr == MaxNr + 1
\* the largest transfer count of one native request, in units of 2^30 bytes
MaxXfer == 2

\* threads that call io_getevents on the one context
Threads == {1, 2}
\* u.v.nr_segs of a vectored iocb
SegCounts == {0, 1, 2}
\* iocb.data: the caller tags its iocbs 101, 102, ... in the order it submits them
TagBase == 100
Tags == {TagBase + op : op \in 1..MaxBatchOps}

-----------------------------------------------------------------------------
(* Program constants.                                                      *)

IO_CMD_PREAD == 0
IO_CMD_PWRITE == 1
IO_CMD_FSYNC == 2
IO_CMD_FDSYNC == 3
IO_CMD_PREADV == 7
IO_CMD_PWRITEV == 8

Opcodes ==
    {IO_CMD_PREAD, IO_CMD_PWRITE, IO_CMD_FSYNC, IO_CMD_FDSYNC, IO_CMD_PREADV, IO_CMD_PWRITEV}

\* unsigned long and DWORD are 32 bits wide: 2^32 bytes are 4 units of 2^30
ULONG_MODULUS == 4

\* INFINITE is the DWORD 0xFFFFFFFF, written here as the same bits read signed
INFINITE == -1

\* Windows error codes (winerror.h)
ERROR_SUCCESS == 0
ERROR_INVALID_FUNCTION == 1
ERROR_FILE_NOT_FOUND == 2
ERROR_PATH_NOT_FOUND == 3
ERROR_ACCESS_DENIED == 5
ERROR_INVALID_HANDLE == 6
ERROR_NOT_ENOUGH_MEMORY == 8
ERROR_OUTOFMEMORY == 14
ERROR_INVALID_DRIVE == 15
ERROR_WRITE_PROTECT == 19
ERROR_BAD_COMMAND == 22
ERROR_SHARING_VIOLATION == 32
ERROR_LOCK_VIOLATION == 33
ERROR_HANDLE_EOF == 38
ERROR_FILE_EXISTS == 80
ERROR_INVALID_PARAMETER == 87
ERROR_DISK_FULL == 112
ERROR_ALREADY_EXISTS == 183
WAIT_TIMEOUT == 258
ERROR_ABANDONED_WAIT_0 == 735
ERROR_OPERATION_ABORTED == 995
ERROR_IO_DEVICE == 1117

\* errno values (errno.h of the Microsoft C runtime)
ENOENT == 2
EIO == 5
EBADF == 9
ENOMEM == 12
EACCES == 13
EEXIST == 17
ENODEV == 19
EINVAL == 22
ENOSPC == 28
EROFS == 30
ECANCELED == 105
ETIMEDOUT == 138

\* Maps a Windows error code to the closest negative errno.
windows_error_to_errno(win_error) ==
    CASE win_error = ERROR_SUCCESS -> 0
      [] win_error = ERROR_ACCESS_DENIED -> -EACCES
      [] win_error = ERROR_FILE_NOT_FOUND -> -ENOENT
      [] win_error = ERROR_PATH_NOT_FOUND -> -ENOENT
      [] win_error = ERROR_INVALID_HANDLE -> -EBADF
      [] win_error = ERROR_NOT_ENOUGH_MEMORY -> -ENOMEM
      [] win_error = ERROR_OUTOFMEMORY -> -ENOMEM
      [] win_error = ERROR_INVALID_PARAMETER -> -EINVAL
      [] win_error = ERROR_INVALID_DRIVE -> -ENODEV
      [] win_error = ERROR_WRITE_PROTECT -> -EROFS
      [] win_error = ERROR_SHARING_VIOLATION -> -EACCES
      [] win_error = ERROR_LOCK_VIOLATION -> -EACCES
      [] win_error = ERROR_HANDLE_EOF -> -EBADF
      [] win_error = ERROR_IO_DEVICE -> -EIO
      [] win_error = ERROR_DISK_FULL -> -ENOSPC
      [] win_error = ERROR_FILE_EXISTS -> -EEXIST
      [] win_error = ERROR_ALREADY_EXISTS -> -EEXIST
      [] win_error = ERROR_OPERATION_ABORTED -> -ECANCELED
      [] win_error = WAIT_TIMEOUT -> -ETIMEDOUT
      [] win_error = ERROR_INVALID_FUNCTION -> -EINVAL
      [] win_error = ERROR_BAD_COMMAND -> -EIO
      [] OTHER -> -EIO

\* The null pointer.
NULL == "NULL"

\* The timeout argument: a null pointer, or a timespec.
Timespecs ==
    {[ptr |-> NULL, tv_sec |-> 0, tv_nsec |-> 0],
     [ptr |-> "timespec", tv_sec |-> 0, tv_nsec |-> 0],
     [ptr |-> "timespec", tv_sec |-> 0, tv_nsec |-> 999999],
     [ptr |-> "timespec", tv_sec |-> 1, tv_nsec |-> 0]}

\* Converts a timespec to milliseconds; INFINITE for a null pointer.
timespec_to_ms(timeout) ==
    IF timeout.ptr = NULL
    THEN INFINITE
    ELSE (timeout.tv_sec * 1000) + (timeout.tv_nsec \div 1000000)

-----------------------------------------------------------------------------
(* What the operating system decides.                                      *)

\* File descriptors: _get_osfhandle resolves the open one only.
OpenFd == 3
ClosedFd == 4
Fds == {OpenFd, ClosedFd}
INVALID_HANDLE_VALUE == -1

get_osfhandle(fd) == IF fd = OpenFd THEN fd ELSE INVALID_HANDLE_VALUE

\* The error a failed native completion reports (GetLastError after a FALSE
\* GetQueuedCompletionStatus that dequeued a packet).
CompletionErrors == {ERROR_HANDLE_EOF, ERROR_IO_DEVICE}

\* The error of a wait that failed without dequeuing a packet, other than
\* WAIT_TIMEOUT: the port's handle is closed, or was closed during the wait.
WaitErrors == {ERROR_INVALID_HANDLE, ERROR_ABANDONED_WAIT_0}

\* What reading freed memory yields: the value last stored there, or a fault.
UafOutcomes == {"stale", "fault"}

-----------------------------------------------------------------------------
(* The caller's iocbs and the batches given to io_submit.                  *)

MaxSegs == CHOOSE n \in SegCounts : \A m \in SegCounts : m <= n

IsSync(req) == req.aio_lio_opcode = IO_CMD_FSYNC \/ req.aio_lio_opcode = IO_CMD_FDSYNC

is_vectored(req) == req.aio_lio_opcode = IO_CMD_PREADV \/ req.aio_lio_opcode = IO_CMD_PWRITEV

\* nr_segs lies in the union iocb.u and is read for a vectored opcode only.
Iocbs ==
    {req \in [aio_lio_opcode : Opcodes, data : Tags, aio_fildes : Fds, nr_segs : SegCounts] :
        ~is_vectored(req) => req.nr_segs = 0}

\* What the operating system answers while one iocb is submitted:
\*   assoc   CreateIoCompletionPort(fileHandle, port) succeeded
\*   flush   FlushFileBuffers succeeded
\*   nomem   which new(std::nothrow) of this iocb returned null (0: none); for a
\*           vectored iocb the first is the group's, the next are the segments'
\*   issue   issue[k]: native request k was issued (TRUE or ERROR_IO_PENDING)
Envs ==
    [assoc : BOOLEAN, flush : BOOLEAN, nomem : 0..(MaxSegs + 1), issue : [1..MaxSegs -> BOOLEAN]]

DefaultEnv == [assoc |-> TRUE, flush |-> TRUE, nomem |-> 0, issue |-> [k \in 1..MaxSegs |-> TRUE]]

\* What stands for the iocb behind a null pointer: it is never read.
NullIocb == CHOOSE req \in Iocbs : TRUE

\* An answer that is never asked for, and a field of the iocb that is never
\* read, is left at its default, so that two inputs differ only where the code
\* can tell them apart.
CanonicalEnv(req, env) ==
    LET badfd == get_osfhandle(req.aio_fildes) = INVALID_HANDLE_VALUE
        dead == badfd \/ ~env.assoc \/ (IsSync(req) /\ ~env.flush)
        n == IF is_vectored(req) THEN req.nr_segs ELSE 1
        allocs == IF is_vectored(req) THEN (IF n = 0 THEN 0 ELSE n + 1) ELSE 1
    IN  /\ (badfd \/ ~env.assoc) => (req.aio_lio_opcode = IO_CMD_PREAD /\ req.nr_segs = 0)
        /\ badfd => env.assoc
        /\ (badfd \/ ~env.assoc \/ ~IsSync(req)) => env.flush
        /\ env.nomem <= allocs
        /\ dead => env.nomem = 0
        /\ \A k \in 1..MaxSegs :
              ~env.issue[k] =>
                  /\ ~dead
                  /\ k <= n
                  /\ env.nomem = 0 \/ (is_vectored(req) /\ k <= env.nomem - 2)

\* One element of the array given to io_submit: a null pointer or an iocb.
Entries ==
    {e \in [ptr : {NULL, "iocb"}, iocb : Iocbs, env : Envs] :
        IF e.ptr = NULL
        THEN e.iocb = NullIocb /\ e.env = DefaultEnv
        ELSE CanonicalEnv(e.iocb, e.env)}

SINGLE_REQUEST == "SINGLE_REQUEST"
VECTORED_SEGMENT == "VECTORED_SEGMENT"

-----------------------------------------------------------------------------
VARIABLES
    \* the iocbs given to io_submit so far, in order: [iocb, env, batch, reached,
    \* counted]; an iocb's position is its address
    ops,
    \* the WinAioRequest records ever allocated; a record's position is its address
    reqs,
    \* the VectoredRequestGroup objects ever allocated
    groups,
    \* the return value of every io_submit call so far
    batches,
    \* per thread, its io_getevents call: arguments, locals, events array, result
    th,
    \* per iocb, the completion events written to an events array for it
    produced,
    \* per iocb, the completion events a returned count covers
    delivered,
    \* the iocbs of which a native completion was dequeued with a failure status
    failed,
    \* the iocbs of which an event with a non-zero res2 was handed to a caller
    reported,
    \* the process has faulted
    crashed,
    \* the WinAioContext objects ever allocated: [st, ioCompletionPort, handed,
    \* destroyed]; handed: io_setup stored it in *ctxp; destroyed: it was given
    \* to io_destroy
    contexts,
    \* the completion ports ever created: "open" or "closed"
    ports,
    \* the last call of io_setup or io_destroy: [fn, ctx, ret]
    last,
    \* the segment loop of io_submit over one vectored iocb, with its offsets:
    \* [req, issue, seg, current_offset, native]; req is the iocb's u.v part,
    \* issue[k] whether the native call of segment k is accepted, native the
    \* arguments of the native calls made so far
    segloop

heap == <<ops, reqs, groups, batches, th, produced, delivered, failed, reported, crashed>>

life == <<contexts, ports, last>>

vars == <<ops, reqs, groups, batches, th, produced, delivered, failed, reported, crashed,
          contexts, ports, last, segloop>>

OpIds == 1..MaxBatchOps

-----------------------------------------------------------------------------
(* io_submit                                                               *)

\* Variant: a request whose native call failed at once is not deleted.
SingleRequest_NotDeleted(op, issued) ==
    [type |-> SINGLE_REQUEST, iocb_single |-> op, group_vectored |-> 0, seg |-> 0,
     st |-> IF issued THEN "pending" ELSE "lost", frees |-> 0]

\* new WinAioRequest of type SINGLE_REQUEST for iocb op; a request whose native
\* call failed at once is deleted by io_submit.
SingleRequest(op, issued) ==
    [type |-> SINGLE_REQUEST, iocb_single |-> op, group_vectored |-> 0, seg |-> 0,
     st |-> IF issued THEN "pending" ELSE "freed", frees |-> IF issued THEN 0 ELSE 1]

\* new WinAioRequest of type VECTORED_SEGMENT for segment seg of group g.
SegmentRequest(g, seg, issued) ==
    [type |-> VECTORED_SEGMENT, iocb_single |-> 0, group_vectored |-> g, seg |-> seg,
     st |-> IF issued THEN "pending" ELSE "freed", frees |-> IF issued THEN 0 ELSE 1]

\* VectoredRequestGroup(iocb): the constructor.  sum_ok and failures are not
\* fields of the object but its history: the bytes its successful segment
\* completions transferred, unbounded, and the error codes of its failed ones in
\* the order their compare_exchange ran.
VectoredRequestGroup(op, req) ==
    [original_iocb |-> op, completed_segments |-> 0, total_segments |-> req.nr_segs,
     total_bytes_transferred |-> 0, first_error |-> 0, st |-> "live", frees |-> 0,
     sum_ok |-> 0, failures |-> <<>>]

Op(e, b, reached, counted) ==
    [iocb |-> e.iocb, env |-> e.env, batch |-> b, reached |-> reached, counted |-> counted]

\* The filesystem synchronization path: flush inline, then a zero-length
\* ReadFile whose completion signals through the port.
SubmitSync(acc, e, b) ==
    LET op == Len(acc.ops) + 1 IN
    IF ~e.env.flush
    THEN [acc EXCEPT !.ops = Append(@, Op(e, b, TRUE, FALSE))]
    ELSE IF e.env.nomem = 1
    THEN [acc EXCEPT !.ops = Append(@, Op(e, b, TRUE, FALSE)), !.stop = TRUE]
    ELSE IF ~e.env.issue[1]
    THEN [acc EXCEPT !.ops = Append(@, Op(e, b, TRUE, FALSE)),
                     !.reqs = Append(@, SingleRequest(op, FALSE))]
    ELSE [acc EXCEPT !.ops = Append(@, Op(e, b, TRUE, TRUE)),
                     !.reqs = Append(@, SingleRequest(op, TRUE)),
                     !.iocbs_processed = @ + 1]

\* The segments 1..m of group g, each issued or deleted at once.
SegmentRequests(g, m, env) == [k \in 1..m |-> SegmentRequest(g, k, env.issue[k])]

\* Variant: a segment that fails its native call is taken off the group's total.
SegmentFailed_Decrement(grp) == [grp EXCEPT !.total_segments = @ - 1]

\* if (!result && GetLastError() != ERROR_IO_PENDING) delete win_req: the group
\* is left as it is.
SegmentFailed(grp) == grp

\* The group after the native calls of its segments 1..m.
RECURSIVE AfterSegments(_, _, _)
AfterSegments(grp, m, env) ==
    IF m = 0 THEN grp
    ELSE LET before == AfterSegments(grp, m - 1, env)
         IN  IF env.issue[m] THEN before ELSE SegmentFailed(before)

\* Variant: the zero-segment iocb is skipped like a failed one.
SubmitZeroSegments_Skipped(acc, e, b) ==
    [acc EXCEPT !.ops = Append(@, Op(e, b, TRUE, FALSE))]

\* A vectored iocb with no segment is counted and nothing is created for it.
SubmitZeroSegments(acc, e, b) ==
    [acc EXCEPT !.ops = Append(@, Op(e, b, TRUE, TRUE)), !.iocbs_processed = @ + 1]

\* Whether a vectored iocb all of whose allocations succeeded is counted: the
\* segment loop falls through to iocbs_processed++ whatever its native calls
\* returned.
VectoredCounted(env, n) == TRUE

\* The vectored path: one group, one request per segment.
SubmitVectored(acc, e, b) ==
    LET op == Len(acc.ops) + 1
        g == Len(acc.groups) + 1
        n == e.iocb.nr_segs
        f == e.env.nomem
    IN  IF n = 0
        THEN SubmitZeroSegments(acc, e, b)
        ELSE IF f = 1
        THEN [acc EXCEPT !.ops = Append(@, Op(e, b, TRUE, FALSE)), !.stop = TRUE]
        ELSE IF f >= 2
        THEN \* the request of segment f - 1 is not allocated: delete group, goto
             \* cleanup_and_exit; the segments before it stay as they are
             [acc EXCEPT !.ops = Append(@, Op(e, b, TRUE, FALSE)),
                         !.groups = Append(@, [AfterSegments(VectoredRequestGroup(op, e.iocb),
                                                             f - 2, e.env) EXCEPT
                                                  !.st = "freed", !.frees = 1]),
                         !.reqs = @ \o SegmentRequests(g, f - 2, e.env),
                         !.stop = TRUE]
        ELSE [acc EXCEPT !.ops = Append(@, Op(e, b, TRUE, VectoredCounted(e.env, n))),
                         !.groups = Append(@, AfterSegments(VectoredRequestGroup(op, e.iocb),
                                                            n, e.env)),
                         !.reqs = @ \o SegmentRequests(g, n, e.env),
                         !.iocbs_processed = @ + (IF VectoredCounted(e.env, n) THEN 1 ELSE 0)]

\* The single read or write path.
SubmitSingle(acc, e, b) ==
    LET op == Len(acc.ops) + 1 IN
    IF e.env.nomem = 1
    THEN [acc EXCEPT !.ops = Append(@, Op(e, b, TRUE, FALSE)), !.stop = TRUE]
    ELSE IF ~e.env.issue[1]
    THEN [acc EXCEPT !.ops = Append(@, Op(e, b, TRUE, FALSE)),
                     !.reqs = Append(@, SingleRequest(op, FALSE))]
    ELSE [acc EXCEPT !.ops = Append(@, Op(e, b, TRUE, TRUE)),
                     !.reqs = Append(@, SingleRequest(op, TRUE)),
                     !.iocbs_processed = @ + 1]

\* Variant: a failed handle ends the batch instead of skipping one iocb.
SubmitSkip_Break(acc, e, b) ==
    [acc EXCEPT !.ops = Append(@, Op(e, b, TRUE, FALSE)), !.stop = TRUE]

\* An iocb whose handle does not resolve, or cannot be associated with the
\* port, is skipped: continue.
SubmitSkip(acc, e, b) == [acc EXCEPT !.ops = Append(@, Op(e, b, TRUE, FALSE))]

\* One iteration of the loop of io_submit.
SubmitIocb(acc, e, b) ==
    IF e.ptr = NULL THEN acc
    ELSE IF acc.stop
    THEN [acc EXCEPT !.ops = Append(@, Op(e, b, FALSE, FALSE))]
    ELSE IF get_osfhandle(e.iocb.aio_fildes) = INVALID_HANDLE_VALUE THEN SubmitSkip(acc, e, b)
    ELSE IF ~e.env.assoc THEN SubmitSkip(acc, e, b)
    ELSE IF IsSync(e.iocb) THEN SubmitSync(acc, e, b)
    ELSE IF is_vectored(e.iocb) THEN SubmitVectored(acc, e, b)
    ELSE SubmitSingle(acc, e, b)

RECURSIVE SubmitLoop(_, _, _, _)
SubmitLoop(acc, iocbs, i, b) ==
    IF i > Len(iocbs) THEN acc
    ELSE SubmitLoop(SubmitIocb(acc, iocbs[i], b), iocbs, i + 1, b)

\* The arrays a caller may give: at most MaxOps iocbs over the whole run.
Arrays(entries, room) ==
    UNION {[1..n -> entries] : n \in 1..room}

\* The entries of the longer batches: one opcode of each kind, at most one
\* segment, every allocation succeeds.
BatchEntries ==
    {e \in Entries :
        /\ e.env.nomem = 0
        /\ e.iocb.nr_segs <= 1
        /\ e.iocb.aio_lio_opcode \in {IO_CMD_PREAD, IO_CMD_FSYNC, IO_CMD_PWRITEV}}

\* The k-th iocb of the run carries the tag TagBase + k.
Tagged(iocbs, base) ==
    \A i \in DOMAIN iocbs :
        iocbs[i].ptr # NULL =>
            iocbs[i].iocb.data = TagBase + base + Cardinality({j \in 1..i : iocbs[j].ptr # NULL})

NonNull(iocbs) == Cardinality({i \in DOMAIN iocbs : iocbs[i].ptr # NULL})

-----------------------------------------------------------------------------
(* The initial state: a context made by io_setup, nothing submitted, no     *)
(* thread inside io_getevents.                                              *)

\* A thread outside io_getevents.  pc is its place, how the way its last call
\* ended, at_wait the events it had collected at its last wait; the rest are the
\* arguments and locals of io_getevents (win_req is 0 before the first dequeue;
\* ctx and array are the context and events pointers, events the array's
\* contents).
IdleThread ==
    [pc |-> "idle", ctx |-> "ctx", array |-> "events",
     min_nr |-> 0, nr |-> 0, timeout_ms |-> 0, events |-> <<>>,
     current_timeout |-> 0, at_wait |-> -1, win_req |-> 0, status |-> FALSE,
     bytesTransferred |-> 0, io_error |-> 0, ret |-> 0, how |-> "none"]

InitHeap ==
    /\ ops = <<>>
    /\ reqs = <<>>
    /\ groups = <<>>
    /\ batches = <<>>
    /\ th = [t \in Threads |-> IdleThread]
    /\ produced = [op \in OpIds |-> 0]
    /\ delivered = [op \in OpIds |-> 0]
    /\ failed = {}
    /\ reported = {}
    /\ crashed = FALSE

\* new WinAioContext() whose port is ioCompletionPort (0: NULL).
WinAioContext(ioCompletionPort) ==
    [st |-> "live", ioCompletionPort |-> ioCompletionPort, handed |-> FALSE,
     destroyed |-> FALSE, frees |-> 0]

NoCall == [fn |-> "none", ctx |-> 0, ret |-> 0]

\* No segment loop is followed.
NoSegmentLoop ==
    [req |-> [offset |-> 0, nr_segs |-> 0, vec |-> <<>>], issue |-> <<>>, seg |-> 0,
     current_offset |-> 0, native |-> <<>>]

Init ==
    /\ InitHeap
    /\ contexts = <<[WinAioContext(1) EXCEPT !.handed = TRUE]>>
    /\ ports = <<"open">>
    /\ last = [fn |-> "io_setup", ctx |-> 1, ret |-> 0]
    /\ segloop = NoSegmentLoop

\* io_submit(ctx, nr, iocbs): the caller's tag of an iocb is its data field.
io_submit(ctx, iocbs, room) ==
    /\ ~crashed
    /\ Len(batches) < room
    /\ Len(ops) + NonNull(iocbs) <= room
    /\ Tagged(iocbs, Len(ops))
    /\ IF ctx = NULL
       THEN /\ batches' = Append(batches, -EINVAL)
            /\ UNCHANGED <<ops, reqs, groups>>
       ELSE LET acc == SubmitLoop([ops |-> ops, reqs |-> reqs, groups |-> groups,
                                   iocbs_processed |-> 0, stop |-> FALSE],
                                  iocbs, 1, Len(batches) + 1)
            IN  /\ ops' = acc.ops
                /\ reqs' = acc.reqs
                /\ groups' = acc.groups
                /\ batches' = Append(batches, acc.iocbs_processed)
    /\ UNCHANGED <<th, produced, delivered, failed, reported, crashed>>

-----------------------------------------------------------------------------
(* The native engine: a request in flight completes and its packet is      *)
(* queued to the port.                                                     *)

NativeComplete(r) ==
    /\ ~crashed
    /\ reqs[r].st = "pending"
    /\ reqs' = [reqs EXCEPT ![r].st = "queued"]
    /\ UNCHANGED <<ops, groups, batches, th, produced, delivered, failed, reported, crashed>>

Queued == {r \in DOMAIN reqs : reqs[r].st = "queued"}

\* The iocb a request belongs to.
OpOf(r) ==
    IF reqs[r].type = SINGLE_REQUEST
    THEN reqs[r].iocb_single
    ELSE groups[reqs[r].group_vectored].original_iocb

\* What GetQueuedCompletionStatus reports for a dequeued packet: status, the
\* bytes transferred, and GetLastError.  The no-op of a sync transfers nothing.
Outcomes(r) ==
    {[status |-> TRUE, bytes |-> b, err |-> 0] :
        b \in IF IsSync(ops[OpOf(r)].iocb) THEN {0} ELSE 1..MaxXfer}
    \cup {[status |-> FALSE, bytes |-> 0, err |-> e] : e \in CompletionErrors}

\* The locals of the iteration that dequeued request r with outcome o.
Dequeued(thr, r, o) ==
    [thr EXCEPT !.win_req = r, !.status = o.status, !.bytesTransferred = o.bytes,
                !.io_error = o.err]

-----------------------------------------------------------------------------
(* io_getevents                                                            *)

\* Variant: a call whose min_nr equals nr is refused as well.
InvalidArguments_Strict(ctx, min_nr, nr, events) ==
    ctx = NULL \/ min_nr < 0 \/ min_nr >= nr \/ events = NULL

\* !context || !context->ioCompletionPort || min_nr < 0 || min_nr > nr || !events
InvalidArguments(ctx, min_nr, nr, events) ==
    ctx = NULL \/ min_nr < 0 \/ min_nr > nr \/ events = NULL

\* The call: argument checks, timeout conversion, entry into the loop.
io_getevents(t, ctx, min_nr, nr, events, timeout) ==
    /\ ~crashed
    /\ th[t].pc = "idle"
    /\ IF InvalidArguments(ctx, min_nr, nr, events)
       THEN th' = [th EXCEPT ![t] = [IdleThread EXCEPT !.ctx = ctx, !.array = events,
                                        !.min_nr = min_nr, !.nr = nr,
                                        !.ret = -EINVAL, !.how = "einval"]]
       ELSE IF min_nr = 0 /\ nr = 0
       THEN th' = [th EXCEPT ![t] = [IdleThread EXCEPT !.ret = 0, !.how = "zero"]]
       ELSE th' = [th EXCEPT ![t] = [IdleThread EXCEPT !.pc = "wait", !.min_nr = min_nr,
                                        !.nr = nr, !.timeout_ms = timespec_to_ms(timeout)]]
    /\ UNCHANGED <<ops, reqs, groups, batches, produced, delivered, failed, reported, crashed>>

\* Variant: every wait uses the caller's timeout.
CurrentTimeout_Full(events_collected, min_nr, timeout_ms) == timeout_ms

\* DWORD current_timeout = (events_collected < min_nr) ? timeout_ms : 0
CurrentTimeout(events_collected, min_nr, timeout_ms) ==
    IF events_collected < min_nr THEN timeout_ms ELSE 0

\* The thread record at the wait of this iteration.
AtWait(thr) ==
    [thr EXCEPT !.current_timeout = CurrentTimeout(Len(thr.events), thr.min_nr, thr.timeout_ms),
                !.at_wait = Len(thr.events)]

\* return value; the thread is outside the call again.
Return(thr, value, how) ==
    [thr EXCEPT !.pc = "idle", !.ret = value, !.how = how, !.nr = 0, !.timeout_ms = 0]

\* Variant: no break; the loop runs on while the array has room.
LoopTail_Drain(thr) ==
    IF Len(thr.events) < thr.nr
    THEN [thr EXCEPT !.pc = "wait"]
    ELSE Return(thr, Len(thr.events), "full")

\* Variant: the break after a zero-budget wait does not look at min_nr.
LoopTail_NoMinimum(thr) ==
    IF thr.current_timeout = 0
    THEN Return(thr, Len(thr.events), "minmet")
    ELSE IF Len(thr.events) < thr.nr
    THEN [thr EXCEPT !.pc = "wait"]
    ELSE Return(thr, Len(thr.events), "full")

\* The end of an iteration: the break once min_nr is met after a zero-budget
\* wait, then the loop's condition.
LoopTail(thr) ==
    IF Len(thr.events) >= thr.min_nr /\ thr.current_timeout = 0
    THEN Return(thr, Len(thr.events), "minmet")
    ELSE IF Len(thr.events) < thr.nr
    THEN [thr EXCEPT !.pc = "wait"]
    ELSE Return(thr, Len(thr.events), "full")

\* The events a return hands to the caller: the first ret of the array, when
\* ret is a count.
Handed(thr) ==
    IF thr.pc = "idle" /\ thr.ret > 0 THEN SubSeq(thr.events, 1, thr.ret) ELSE <<>>

CountFor(evs, op) == Cardinality({i \in DOMAIN evs : evs[i].obj = op})

Deliver(thr) == [op \in OpIds |-> delivered[op] + CountFor(Handed(thr), op)]

Report(thr) ==
    LET evs == Handed(thr) IN reported \cup {evs[i].obj : i \in {j \in DOMAIN evs : evs[j].res2 # 0}}

\* The event of a SINGLE_REQUEST.
SingleEvent(op, o) ==
    [data |-> ops[op].iocb.data, obj |-> op,
     res |-> IF o.status THEN o.bytes ELSE 0, res2 |-> o.err]

\* A wait that dequeues the packet of a single request: the event is written,
\* the request deleted.
GetSingle(t, r, o) ==
    LET op == reqs[r].iocb_single
        thr == Dequeued(AtWait(th[t]), r, o)
        done == LoopTail([thr EXCEPT !.events = Append(@, SingleEvent(op, o))])
    IN  /\ ~crashed
        /\ th[t].pc = "wait"
        /\ r \in Queued
        /\ reqs[r].type = SINGLE_REQUEST
        /\ reqs' = [reqs EXCEPT ![r].st = "freed", ![r].frees = @ + 1]
        /\ produced' = [produced EXCEPT ![op] = @ + 1]
        /\ th' = [th EXCEPT ![t] = done]
        /\ delivered' = Deliver(done)
        /\ reported' = Report(done)
        /\ failed' = IF o.status THEN failed ELSE failed \cup {op}
        /\ UNCHANGED <<ops, groups, batches, crashed>>

\* group->total_bytes_transferred.fetch_add(bytesTransferred)
AddBytes(grp, o) ==
    [grp EXCEPT !.total_bytes_transferred = (@ + o.bytes) % ULONG_MODULUS]

\* Variant: a plain store, so the last failing segment wins.
SetFirstError_Store(grp, o) ==
    [grp EXCEPT !.first_error = o.err]

\* expected = 0; group->first_error.compare_exchange_strong(expected, io_error)
SetFirstError(grp, o) ==
    [grp EXCEPT !.first_error = IF @ = 0 THEN o.err ELSE @]

\* The history of a group after a segment completion with outcome o.
History(grp, o) ==
    [grp EXCEPT !.sum_ok = IF o.status THEN @ + o.bytes ELSE @,
                !.failures = IF o.status THEN @ ELSE Append(@, o.err)]

\* A wait that dequeues the packet of a vectored segment, and the segment's
\* contribution to its group.  A group that io_submit has deleted is read
\* through a dangling pointer.
GetSegment(t, r, o, uaf) ==
    LET g == reqs[r].group_vectored
        thr == Dequeued(AtWait(th[t]), r, o)
    IN  /\ ~crashed
        /\ th[t].pc = "wait"
        /\ r \in Queued
        /\ reqs[r].type = VECTORED_SEGMENT
        /\ uaf = "fault" => groups[g].st = "freed"
        /\ IF uaf = "fault"
           THEN /\ crashed' = TRUE
                /\ UNCHANGED <<reqs, groups, th, failed>>
           ELSE /\ reqs' = [reqs EXCEPT ![r].st = "taken"]
                /\ failed' = IF o.status THEN failed ELSE failed \cup {groups[g].original_iocb}
                /\ groups' = [groups EXCEPT ![g] = History(IF o.status THEN AddBytes(@, o)
                                                           ELSE SetFirstError(@, o), o)]
                /\ th' = [th EXCEPT ![t] = [thr EXCEPT !.pc = "seg"]]
                /\ UNCHANGED crashed
        /\ UNCHANGED <<ops, batches, produced, delivered, reported>>

\* The consolidated event of a group.
GroupEvent(grp) ==
    [data |-> ops[grp.original_iocb].iocb.data, obj |-> grp.original_iocb,
     res |-> grp.total_bytes_transferred, res2 |-> grp.first_error]

\* group->completed_segments.fetch_add(1) + 1 == group->total_segments
ClosesGroup(grp) == grp.completed_segments + 1 = grp.total_segments

\* The segment's increment of completed_segments; the one that closes the
\* group writes the event.  Then delete win_req, and for the closing segment
\* delete win_req->group_vectored, which reads the request just deleted.
SegmentDone(t, uaf) ==
    LET r == th[t].win_req
        g == reqs[r].group_vectored
        grp == groups[g]
        closes == ClosesGroup(grp)
        thr == th[t]
        done == LoopTail(IF closes THEN [thr EXCEPT !.events = Append(@, GroupEvent(grp))]
                         ELSE thr)
    IN  /\ ~crashed
        /\ th[t].pc = "seg"
        /\ uaf = "fault" => (grp.st = "freed" \/ closes)
        /\ IF uaf = "fault"
           THEN /\ crashed' = TRUE
                /\ UNCHANGED <<reqs, groups, th, produced, delivered, reported>>
           ELSE /\ reqs' = [reqs EXCEPT ![r].st = "freed", ![r].frees = @ + 1]
                /\ groups' = [groups EXCEPT
                                 ![g].completed_segments = @ + 1,
                                 ![g].st = IF closes THEN "freed" ELSE @,
                                 ![g].frees = IF closes THEN @ + 1 ELSE @]
                /\ produced' = [produced EXCEPT
                                   ![grp.original_iocb] = IF closes THEN @ + 1 ELSE @]
                /\ th' = [th EXCEPT ![t] = done]
                /\ delivered' = Deliver(done)
                /\ reported' = Report(done)
                /\ UNCHANGED crashed
        /\ UNCHANGED <<ops, batches, failed>>

\* Variant: a timeout is returned like any other failure of the wait.
WaitTimeout_Error(t) ==
    LET thr == AtWait(th[t])
        done == Return(thr, windows_error_to_errno(WAIT_TIMEOUT), "timeout")
    IN  /\ ~crashed
        /\ th[t].pc = "wait"
        /\ Queued = {}
        /\ thr.current_timeout # INFINITE
        /\ th' = [th EXCEPT ![t] = done]
        /\ delivered' = Deliver(done)
        /\ reported' = Report(done)
        /\ UNCHANGED <<ops, reqs, groups, batches, produced, failed, crashed>>

\* A wait that ends by timeout: no packet is queued and the budget is not
\* INFINITE.  Timeout is not an error: break.
WaitTimeout(t) ==
    LET thr == AtWait(th[t])
        done == Return(thr, Len(thr.events), "timeout")
    IN  /\ ~crashed
        /\ th[t].pc = "wait"
        /\ Queued = {}
        /\ thr.current_timeout # INFINITE
        /\ th' = [th EXCEPT ![t] = done]
        /\ delivered' = Deliver(done)
        /\ reported' = Report(done)
        /\ UNCHANGED <<ops, reqs, groups, batches, produced, failed, crashed>>

\* Variant: a failed wait ends the loop like a timeout, returning the count.
WaitFails_Partial(t, last_error) ==
    LET thr == AtWait(th[t])
        done == Return(thr, IF thr.events = <<>> THEN windows_error_to_errno(last_error)
                            ELSE Len(thr.events), "waitfail")
    IN  /\ ~crashed
        /\ th[t].pc = "wait"
        /\ th' = [th EXCEPT ![t] = done]
        /\ delivered' = Deliver(done)
        /\ reported' = Report(done)
        /\ UNCHANGED <<ops, reqs, groups, batches, produced, failed, crashed>>

\* A wait that fails without dequeuing a packet, for another reason than
\* timeout: return windows_error_to_errno(last_error).
WaitFails(t, last_error) ==
    LET thr == AtWait(th[t])
        done == Return(thr, windows_error_to_errno(last_error), "waitfail")
    IN  /\ ~crashed
        /\ th[t].pc = "wait"
        /\ th' = [th EXCEPT ![t] = done]
        /\ delivered' = Deliver(done)
        /\ reported' = Report(done)
        /\ UNCHANGED <<ops, reqs, groups, batches, produced, failed, crashed>>

-----------------------------------------------------------------------------
\* The argument lists given to io_getevents: every valid one up to maxNr, the
\* one that returns 0 at once, and one for each reason of -EINVAL.
Calls(maxNr) ==
    {c \in [ctx : {NULL, "ctx"}, min_nr : (-1)..maxNr, nr : 0..maxNr, events : {NULL, "events"},
            timeout : Timespecs] :
        \/ c.ctx = "ctx" /\ c.events = "events" /\ 0 <= c.min_nr /\ c.min_nr <= c.nr
        \/ c.ctx = NULL /\ c.events = "events" /\ c.min_nr = 0 /\ c.nr = 1 /\ c.timeout.ptr = NULL
        \/ c.ctx = "ctx" /\ c.events = NULL /\ c.min_nr = 0 /\ c.nr \in {0, 1} /\ c.timeout.ptr = NULL
        \/ c.ctx = "ctx" /\ c.events = "events" /\ c.min_nr = -1 /\ c.nr = 1 /\ c.timeout.ptr = NULL
        \/ c.ctx = "ctx" /\ c.events = "events" /\ c.min_nr = 1 /\ c.nr = 0 /\ c.timeout.ptr = NULL}

\* The steps of a run in which at most room iocbs are submitted and the
\* threads of callers call io_getevents with nr up to maxNr.
NextOf(entries, room, callers, maxNr) ==
    \/ /\ \E ctx \in {NULL, "ctx"}, iocbs \in Arrays(entries, room - Len(ops)) :
             io_submit(ctx, iocbs, room)
       /\ UNCHANGED <<life, segloop>>
    \/ /\ \E r \in DOMAIN reqs : NativeComplete(r)
       /\ UNCHANGED <<life, segloop>>
    \/ /\ \E t \in callers, c \in Calls(maxNr) :
             io_getevents(t, c.ctx, c.min_nr, c.nr, c.events, c.timeout)
       /\ UNCHANGED <<life, segloop>>
    \/ /\ \E t \in callers, r \in DOMAIN reqs : \E o \in Outcomes(r) : GetSingle(t, r, o)
       /\ UNCHANGED <<life, segloop>>
    \/ /\ \E t \in callers, r \in DOMAIN reqs, uaf \in UafOutcomes :
             \E o \in Outcomes(r) : GetSegment(t, r, o, uaf)
       /\ UNCHANGED <<life, segloop>>
    \/ /\ \E t \in callers, uaf \in UafOutcomes : SegmentDone(t, uaf)
       /\ UNCHANGED <<life, segloop>>
    \/ /\ \E t \in callers : WaitTimeout(t)
       /\ UNCHANGED <<life, segloop>>
    \/ /\ \E t \in callers, last_error \in WaitErrors : WaitFails(t, last_error)
       /\ UNCHANGED <<life, segloop>>

\* Every thread may be inside io_getevents at once.
Next == NextOf(Entries, MaxOps, Threads, MaxNr)

Spec == Init /\ [][Next]_vars

\* One thread calls io_getevents; io_submit is given longer batches.
NextBatch == NextOf(BatchEntries, MaxBatchOps, {1}, MaxBatchNr)

SpecBatch == Init /\ [][NextBatch]_vars

\* One thread calls io_getevents for up to MaxBatchNr events on one iocb of any
\* kind, so that a call has room left after a segment's completion.
NextDrain == NextOf(Entries, MaxOps, {1}, MaxBatchNr)

SpecDrain == Init /\ [][NextDrain]_vars

-----------------------------------------------------------------------------
(* io_setup and io_destroy                                                 *)

\* io_setup calls over a whole run
MaxContexts == 3

\* GetLastError after a CreateIoCompletionPort that returned NULL.
PortErrors == {ERROR_NOT_ENOUGH_MEMORY, ERROR_ACCESS_DENIED}

\* delete context
DeleteContext(cs, c) == [cs EXCEPT ![c].st = "freed", ![c].frees = @ + 1]

\* Variant: the port is left open.
CloseHandle_Skipped(ps, p) == ps

\* CloseHandle(context->ioCompletionPort)
CloseHandle(ps, p) == [ps EXCEPT ![p] = "closed"]

\* io_setup(maxevents, ctxp): allocated tells whether new returned an object,
\* port_error is 0 when CreateIoCompletionPort returned a port.
io_setup(allocated, port_error) ==
    LET c == Len(contexts) + 1
        p == Len(ports) + 1
    IN  /\ Len(contexts) < MaxContexts
        /\ IF ~allocated
           THEN /\ last' = [fn |-> "io_setup", ctx |-> 0, ret |-> -ENOMEM]
                /\ UNCHANGED <<contexts, ports>>
           ELSE IF port_error # 0
           THEN /\ contexts' = DeleteContext(Append(contexts, WinAioContext(0)), c)
                /\ last' = [fn |-> "io_setup", ctx |-> 0,
                            ret |-> windows_error_to_errno(port_error)]
                /\ UNCHANGED ports
           ELSE /\ contexts' = Append(contexts, [WinAioContext(p) EXCEPT !.handed = TRUE])
                /\ ports' = Append(ports, "open")
                /\ last' = [fn |-> "io_setup", ctx |-> c, ret |-> 0]
        /\ UNCHANGED <<heap, segloop>>

\* io_destroy(ctx): ctx is 0 for a null pointer.
io_destroy(ctx) ==
    /\ IF ctx # 0
       THEN /\ ports' = IF contexts[ctx].ioCompletionPort # 0
                        THEN CloseHandle(ports, contexts[ctx].ioCompletionPort)
                        ELSE ports
            /\ contexts' = [DeleteContext(contexts, ctx) EXCEPT ![ctx].destroyed = TRUE]
       ELSE UNCHANGED <<contexts, ports>>
    /\ last' = [fn |-> "io_destroy", ctx |-> ctx, ret |-> 0]
    /\ UNCHANGED <<heap, segloop>>

\* The contexts a caller holds: handed out by io_setup and not yet destroyed.
Held == {c \in DOMAIN contexts : contexts[c].handed /\ ~contexts[c].destroyed}

\* The iocbs submitted while contexts come and go: single reads.
LifeEntries ==
    {e \in BatchEntries : e.ptr # NULL /\ e.iocb.aio_lio_opcode = IO_CMD_PREAD /\ e.env.assoc}

InitLife ==
    /\ InitHeap
    /\ contexts = <<>>
    /\ ports = <<>>
    /\ last = NoCall
    /\ segloop = NoSegmentLoop

\* Contexts are set up and destroyed, with requests in flight or without.
NextLife ==
    \/ \E allocated \in BOOLEAN, port_error \in {0} \cup PortErrors :
          /\ allocated \/ port_error = 0
          /\ io_setup(allocated, port_error)
    \/ \E ctx \in {0} \cup Held : io_destroy(ctx)
    \/ /\ Held # {}
       /\ \E iocbs \in Arrays(LifeEntries, MaxBatchOps - Len(ops)) :
             io_submit("ctx", iocbs, MaxBatchOps)
       /\ UNCHANGED <<life, segloop>>

SpecLife == InitLife /\ [][NextLife]_vars

-----------------------------------------------------------------------------
(* The file offsets of the segments of one vectored iocb.                  *)

\* The largest base offset of a vectored iocb, in the unit of the byte counts
MaxOffset == 3

\* long long and the two DWORD halves of OVERLAPPED's offset: two ULONGs wide.
LONGLONG_MODULUS == ULONG_MODULUS * ULONG_MODULUS

\* The conversion of an integer to long long.
AsLongLong(x) ==
    LET m == x % LONGLONG_MODULUS
    IN  IF 2 * m >= LONGLONG_MODULUS THEN m - LONGLONG_MODULUS ELSE m

\* The vectored part of an iocb: u.v.offset, u.v.nr_segs and the iov_len of
\* every element of u.v.vec.
VectoredParts ==
    UNION {[offset : 0..MaxOffset, nr_segs : {n}, vec : [1..n -> 0..MaxXfer]] :
              n \in SegCounts \ {0}}

\* win_req->overlapped.Offset = (DWORD)(current_offset & 0xFFFFFFFF)
Offset(current_offset) == current_offset % ULONG_MODULUS

\* win_req->overlapped.OffsetHigh = (DWORD)((current_offset >> 32) & 0xFFFFFFFF)
OffsetHigh(current_offset) == (current_offset \div ULONG_MODULUS) % ULONG_MODULUS

\* Variant: the offset advances past a segment only if its native call was
\* accepted.
AdvanceOffset_OnlyIssued(current_offset, iov_len, issued) ==
    IF issued THEN AsLongLong(current_offset + iov_len) ELSE current_offset

\* current_offset += iov->iov_len, whatever the native call returned.
AdvanceOffset(current_offset, iov_len, issued) == AsLongLong(current_offset + iov_len)

\* long long current_offset = req->u.v.offset, before the first iteration.
InitOffsets ==
    /\ InitHeap
    /\ contexts = <<[WinAioContext(1) EXCEPT !.handed = TRUE]>>
    /\ ports = <<"open">>
    /\ last = [fn |-> "io_setup", ctx |-> 1, ret |-> 0]
    /\ \E req \in VectoredParts, issue \in [1..MaxSegs -> BOOLEAN] :
          /\ \A k \in 1..MaxSegs : k > req.nr_segs => issue[k]
          /\ segloop = [req |-> req, issue |-> issue, seg |-> 0,
                        current_offset |-> req.offset, native |-> <<>>]

\* One iteration of the segment loop: the native call of segment seg (counted
\* from 0) with its OVERLAPPED offset and its length, then the advance.
SegmentIteration ==
    /\ segloop.seg < segloop.req.nr_segs
    /\ LET iov_len == segloop.req.vec[segloop.seg + 1]
           issued == segloop.issue[segloop.seg + 1]
       IN  segloop' =
              [segloop EXCEPT
                  !.native = Append(@, [Offset |-> Offset(segloop.current_offset),
                                        OffsetHigh |-> OffsetHigh(segloop.current_offset),
                                        nNumberOfBytes |-> iov_len % ULONG_MODULUS,
                                        issued |-> issued]),
                  !.current_offset = AdvanceOffset(@, iov_len, issued),
                  !.seg = @ + 1]
    /\ UNCHANGED <<heap, life>>

NextOffsets == SegmentIteration

SpecOffsets == InitOffsets /\ [][NextOffsets]_vars

-----------------------------------------------------------------------------
(* What the claims speak of.                                               *)

\* The requests allocated for iocb op.
ReqsOf(op) == {r \in DOMAIN reqs : OpOf(r) = op}

\* The groups allocated for iocb op.
GroupsOf(op) == {g \in DOMAIN groups : groups[g].original_iocb = op}

\* Every request of op is gone: deleted by io_submit, or dequeued and deleted.
Consumed(op) == \A r \in ReqsOf(op) : reqs[r].st = "freed"

\* The events for op that lie in some thread's events array.
EventsFor(op) ==
    {th[t].events[i] : <<t, i>> \in {p \in Threads \X (1..MaxBatchNr) :
                                        /\ p[2] <= Len(th[p[1]].events)
                                        /\ th[p[1]].events[p[2]].obj = op}}

\* A thread still inside io_getevents has an event for op in its array.
Holding(op) ==
    \E t \in Threads : th[t].pc # "idle" /\ \E i \in DOMAIN th[t].events : th[t].events[i].obj = op

\* The file descriptor of op resolves to a handle.
Resolves(op) == get_osfhandle(ops[op].iocb.aio_fildes) # INVALID_HANDLE_VALUE

\* The native requests op calls for, and whether each was issued.
NativeRequests(op) == IF is_vectored(ops[op].iocb) THEN ops[op].iocb.nr_segs ELSE 1

AllIssued(op) ==
    /\ ops[op].reached
    /\ Resolves(op)
    /\ ops[op].env.assoc
    /\ ops[op].env.flush
    /\ ops[op].env.nomem = 0
    /\ \A k \in 1..NativeRequests(op) : ops[op].env.issue[k]

\* Nothing is in flight and no thread is inside io_getevents.
Quiescent ==
    /\ ~crashed
    /\ \A t \in Threads : th[t].pc = "idle"
    /\ \A r \in DOMAIN reqs : reqs[r].st = "freed"

RECURSIVE SumOver(_, _)
SumOver(S, f) ==
    IF S = {} THEN 0
    ELSE LET x == CHOOSE y \in S : TRUE IN f[x] + SumOver(S \ {x}, f)

Last(q) == q[Len(q)]

-----------------------------------------------------------------------------
(* C1: every accepted read, write, sync or data-sync gets exactly one      *)
(* completion event delivered to a caller: never two, and never none once  *)
(* its native completion was dequeued and the call that dequeued it has    *)
(* returned; the event carries the iocb's tag and the iocb, and after a    *)
(* successful native operation res is the bytes transferred and res2 is 0. *)
C1_ExactlyOneEventDelivered ==
    \A op \in DOMAIN ops :
        (ops[op].counted /\ ~is_vectored(ops[op].iocb)) =>
            /\ produced[op] <= 1
            /\ delivered[op] <= 1
            /\ (Consumed(op) /\ ~Holding(op) /\ ~crashed) => delivered[op] = 1
            /\ \A e \in EventsFor(op) : e.data = ops[op].iocb.data
            /\ \A t \in Threads :
                  (th[t].win_req \in ReqsOf(op) /\ reqs[th[t].win_req].st = "freed") =>
                      /\ th[t].events # <<>>
                      /\ Last(th[t].events).obj = op
                      /\ th[t].status =>
                            /\ Last(th[t].events).res = th[t].bytesTransferred
                            /\ Last(th[t].events).res2 = 0

\* An accepted single operation whose event a caller has been handed.
C1_Witness ==
    \E op \in DOMAIN ops :
        /\ ops[op].counted
        /\ ~is_vectored(ops[op].iocb)
        /\ delivered[op] = 1
        /\ \E t \in Threads : th[t].pc = "idle" /\ th[t].ret = 2

-----------------------------------------------------------------------------
(* C2: a vectored operation with N > 0 segments, all issued, gets exactly  *)
(* one completion event, whatever the order and the threads in which its   *)
(* segment completions are processed, and the event's res is the sum of    *)
(* the bytes its successful segments transferred.                          *)
C2_OneEventWithByteSum ==
    \A g \in DOMAIN groups :
        LET op == groups[g].original_iocb IN
        AllIssued(op) =>
            /\ produced[op] <= 1
            /\ groups[g].completed_segments <= groups[g].total_segments
            /\ groups[g].completed_segments = groups[g].total_segments => produced[op] = 1
            /\ \A e \in EventsFor(op) : e.res = groups[g].sum_ok

\* The same with the sum taken in the 32 bits of unsigned long, which is what
\* the event holds.
C2_OneEventWithByteSumModulo ==
    \A g \in DOMAIN groups :
        LET op == groups[g].original_iocb IN
        AllIssued(op) =>
            /\ produced[op] <= 1
            /\ groups[g].completed_segments <= groups[g].total_segments
            /\ groups[g].completed_segments = groups[g].total_segments => produced[op] = 1
            /\ \A e \in EventsFor(op) : e.res = groups[g].sum_ok % ULONG_MODULUS

\* Two segments processed by two threads, and the group's event written.
C2_Witness ==
    \E g \in DOMAIN groups :
        /\ AllIssued(groups[g].original_iocb)
        /\ groups[g].total_segments = 2
        /\ produced[groups[g].original_iocb] = 1
        /\ \E t \in Threads, u \in Threads :
              /\ t # u
              /\ th[t].win_req \in ReqsOf(groups[g].original_iocb)
              /\ th[u].win_req \in ReqsOf(groups[g].original_iocb)

-----------------------------------------------------------------------------
(* C3: the first-error slot of a group holds 0 until a segment completion  *)
(* fails, and from then on the error code of the failing segment whose     *)
(* compare-and-set ran first; the consolidated event's res2 is that value, *)
(* so it is non-zero exactly when some segment completion failed.          *)
C3_FirstErrorWins ==
    \A g \in DOMAIN groups :
        LET first == IF groups[g].failures = <<>> THEN 0 ELSE Head(groups[g].failures) IN
        /\ groups[g].first_error = first
        /\ \A e \in EventsFor(groups[g].original_iocb) :
              /\ e.res2 = first
              /\ e.res2 # 0 <=> groups[g].failures # <<>>

\* A consolidated event of a group two of whose segments failed with
\* different error codes.
C3_Witness ==
    \E g \in DOMAIN groups :
        /\ Len(groups[g].failures) = 2
        /\ groups[g].failures[1] # groups[g].failures[2]
        /\ \E e \in EventsFor(groups[g].original_iocb) : e.res2 = groups[g].failures[1]

-----------------------------------------------------------------------------
(* C4: a native completion dequeued with a failure status is never dropped: *)
(* once nothing is in flight and every io_getevents call has returned, an  *)
(* event with a non-zero res2 has been handed to a caller for its iocb.    *)
C4_FailuresSurface == Quiescent => failed \subseteq reported

\* A failed completion that was reported.
C4_Witness == Quiescent /\ failed # {} /\ failed \subseteq reported

-----------------------------------------------------------------------------
(* C5: io_submit counts an iocb only if all of its native requests were    *)
(* issued, or it is a vectored iocb with no segment.                       *)
C5_CountedOnlyIfAllIssued ==
    \A op \in DOMAIN ops :
        ops[op].counted =>
            \/ AllIssued(op)
            \/ is_vectored(ops[op].iocb) /\ ops[op].iocb.nr_segs = 0

\* A counted iocb all of whose requests were issued.
C5_Witness == \E op \in DOMAIN ops : ops[op].counted /\ AllIssued(op) /\ NativeRequests(op) = 2

-----------------------------------------------------------------------------
(* C6: io_submit is best-effort per iocb: an iocb whose file descriptor    *)
(* resolves to no handle is skipped and not counted, gets no request and   *)
(* no event, the iocbs after it in the batch are still processed, the      *)
(* return value is the number of counted iocbs, and the events ever        *)
(* written for a batch do not exceed the value io_submit returned for it.  *)
OpsOfBatch(b) == {op \in DOMAIN ops : ops[op].batch = b}

C6_BestEffortSubmit ==
    /\ \A op \in DOMAIN ops :
          (ops[op].reached /\ ~Resolves(op)) =>
              /\ ~ops[op].counted
              /\ ReqsOf(op) = {}
              /\ GroupsOf(op) = {}
              /\ produced[op] = 0
              /\ delivered[op] = 0
              /\ \A later \in OpsOfBatch(ops[op].batch) : later > op => ops[later].reached
    /\ \A b \in DOMAIN batches :
          batches[b] # -EINVAL =>
          /\ batches[b] = Cardinality({op \in OpsOfBatch(b) : ops[op].counted})
          /\ batches[b] <= Cardinality(OpsOfBatch(b))
          /\ SumOver(OpsOfBatch(b), produced) <= batches[b]

\* A batch of two whose first iocb has a bad descriptor: io_submit returned 1
\* and the event of the second has been handed to a caller.
C6_Witness ==
    \E op \in DOMAIN ops :
        /\ ~Resolves(op)
        /\ op + 1 \in OpsOfBatch(ops[op].batch)
        /\ batches[ops[op].batch] = 1
        /\ delivered[op + 1] = 1

-----------------------------------------------------------------------------
-----------------------------------------------------------------------------
(* C8: a sync or data-sync iocb on a valid handle whose flush succeeds is  *)
(* counted and gets exactly one event, with res = 0 and res2 = 0; if the   *)
(* flush fails it is not counted and no event is ever written for it.      *)
C8_SyncOneEvent ==
    \A op \in DOMAIN ops :
        (ops[op].reached /\ IsSync(ops[op].iocb) /\ Resolves(op) /\ ops[op].env.assoc) =>
            IF ops[op].env.flush
            THEN /\ ops[op].counted
                 /\ produced[op] <= 1
                 /\ (Consumed(op) /\ ReqsOf(op) # {}) => produced[op] = 1
                 /\ \A e \in EventsFor(op) : e.res = 0 /\ e.res2 = 0
            ELSE /\ ~ops[op].counted
                 /\ ReqsOf(op) = {}
                 /\ produced[op] = 0

\* A flushed sync iocb whose event, with both results 0, reached a caller.
C8_Witness ==
    \E op \in DOMAIN ops :
        /\ IsSync(ops[op].iocb)
        /\ ops[op].env.flush
        /\ delivered[op] = 1
        /\ \E e \in EventsFor(op) : e.res = 0 /\ e.res2 = 0

-----------------------------------------------------------------------------
(* C9: io_getevents never returns more than nr events, and every wait of a *)
(* call is made with the caller's full timeout while fewer than min_nr     *)
(* events are collected and with a zero budget once min_nr are collected.  *)
C9_WaitBudget ==
    [][\A t \in Threads :
          /\ (th[t].pc = "wait" /\ th'[t] # th[t]) =>
                /\ th'[t].at_wait = Len(th[t].events)
                /\ th'[t].current_timeout =
                      IF Len(th[t].events) < th[t].min_nr THEN th[t].timeout_ms ELSE 0
          /\ (th[t].pc # "idle" /\ th'[t] # th[t]) =>
                /\ Len(th'[t].events) <= th[t].nr
                /\ (th'[t].pc = "idle" /\ th'[t].ret >= 0) =>
                      /\ th'[t].ret = Len(th'[t].events)
                      /\ th'[t].ret <= th[t].nr]_vars

\* A call with min_nr = 1 that collected one event after an unbounded wait,
\* polled once more with a zero budget and returned on that poll's timeout.
C9_Witness ==
    \E t \in Threads :
        /\ th[t].how = "timeout"
        /\ th[t].min_nr = 1
        /\ th[t].at_wait = 1
        /\ th[t].current_timeout = 0
        /\ th[t].ret = 1

-----------------------------------------------------------------------------
-----------------------------------------------------------------------------
(* C11: io_getevents called with min_nr = 0 and nr = 0 returns 0 at once:  *)
(* it makes no wait on the port, dequeues no completion, and leaves every  *)
(* request record and group as it is.                                      *)
C11_ZeroCallReturnsZero ==
    [][\A t \in Threads :
          (th[t].pc = "idle" /\ th'[t] # th[t] /\ th'[t].min_nr = 0 /\ th'[t].nr = 0) =>
              /\ th'[t].pc = "idle"
              /\ th'[t].ret = 0
              /\ th'[t].at_wait = -1
              /\ th'[t].win_req = 0
              /\ th'[t].events = <<>>
              /\ UNCHANGED <<reqs, groups, produced, delivered>>]_vars

(* C11, amended: io_getevents called with a context, an events array,      *)
(* min_nr = 0 and nr = 0 returns 0 at once: it makes no wait on the port,  *)
(* dequeues no completion, and leaves every request record and group as it *)
(* is.                                                                     *)
C11_ValidZeroCallReturnsZero ==
    [][\A t \in Threads :
          (/\ th[t].pc = "idle"
           /\ th'[t] # th[t]
           /\ th'[t].ctx # NULL
           /\ th'[t].array # NULL
           /\ th'[t].min_nr = 0
           /\ th'[t].nr = 0) =>
              /\ th'[t].pc = "idle"
              /\ th'[t].how = "zero"
              /\ th'[t].ret = 0
              /\ th'[t].at_wait = -1
              /\ th'[t].win_req = 0
              /\ th'[t].events = <<>>
              /\ UNCHANGED <<reqs, groups, produced, delivered>>]_vars

\* A call that returned 0 at once while a completion lay queued on the port.
C11_Witness ==
    \E t \in Threads :
        /\ th[t].pc = "idle"
        /\ th[t].how = "zero"
        /\ th[t].ret = 0
        /\ Queued # {}

-----------------------------------------------------------------------------
(* C12: io_destroy always returns 0; given a context it closes the port    *)
(* and deletes the context without waiting for the requests in flight, and *)
(* given a null pointer it does nothing.  A context is allocated exactly   *)
(* while a caller holds it and a port is open exactly while its context is *)
(* allocated, so once every context io_setup handed out has been destroyed *)
(* nothing remains allocated, and an io_setup that failed leaves nothing.  *)
C12_DestroySucceedsNoLeak ==
    /\ [](/\ \A c \in DOMAIN contexts :
                /\ contexts[c].st = "live" <=> c \in Held
                /\ contexts[c].frees <= 1
                /\ contexts[c].st = "freed" => contexts[c].frees = 1
          /\ \A p \in DOMAIN ports :
                ports[p] = "open" <=> \E c \in Held : contexts[c].ioCompletionPort = p
          /\ (last.fn = "io_setup" /\ last.ret # 0) => last.ctx = 0)
    /\ [][last'.fn = "io_destroy" /\ last' # last =>
             /\ last'.ret = 0
             /\ UNCHANGED heap
             /\ IF last'.ctx = 0
                THEN UNCHANGED <<contexts, ports>>
                ELSE /\ contexts[last'.ctx].st = "live"
                     /\ contexts'[last'.ctx].st = "freed"
                     /\ ports'[contexts[last'.ctx].ioCompletionPort] = "closed"]_vars

\* Three contexts set up and destroyed, the last with a request in flight that
\* io_destroy did not wait for; nothing is allocated.
C12_Witness ==
    /\ Len(contexts) = MaxContexts
    /\ \A c \in DOMAIN contexts : contexts[c].st = "freed"
    /\ \E c \in DOMAIN contexts : contexts[c].destroyed
    /\ \E c \in DOMAIN contexts : ~contexts[c].handed
    /\ \A p \in DOMAIN ports : ports[p] = "closed"
    /\ last = [fn |-> "io_destroy", ctx |-> MaxContexts, ret |-> 0]
    /\ \E r \in DOMAIN reqs : reqs[r].st = "pending"

-----------------------------------------------------------------------------
(* C13: every WinAioRequest is deleted exactly once: by io_submit when its *)
(* native call failed at once, or else by the io_getevents call that       *)
(* dequeued its completion, and never by both; until then it is in flight, *)
(* queued on the port, or in the hands of the thread that dequeued it.     *)

\* The native call of request r was issued.
Issued(r) ==
    ops[OpOf(r)].env.issue[IF reqs[r].type = SINGLE_REQUEST THEN 1 ELSE reqs[r].seg]

C13_RequestFreedOnce ==
    /\ [](\A r \in DOMAIN reqs :
             /\ reqs[r].frees <= 1
             /\ reqs[r].st \in {"pending", "queued", "taken", "freed"}
             /\ reqs[r].st = "freed" <=> reqs[r].frees = 1
             /\ ~Issued(r) => reqs[r].st = "freed"
             /\ reqs[r].st = "taken" => \E t \in Threads : th[t].pc = "seg" /\ th[t].win_req = r
             /\ Cardinality({t \in Threads : th[t].pc = "seg" /\ th[t].win_req = r}) <= 1)
    /\ [][\A r \in DOMAIN reqs :
             reqs'[r].frees # reqs[r].frees =>
                 /\ Issued(r)
                 /\ reqs[r].st \in {"queued", "taken"}
                 /\ reqs'[r].frees = 1
                 /\ \E t \in Threads : th'[t].win_req = r /\ th[t].pc # "idle"]_vars

\* A vectored iocb of two segments: the request of one was deleted by io_submit,
\* the request of the other by the io_getevents call that dequeued it.
C13_Witness ==
    \E r \in DOMAIN reqs, q \in DOMAIN reqs :
        /\ reqs[r].type = VECTORED_SEGMENT
        /\ reqs[q].group_vectored = reqs[r].group_vectored
        /\ ~Issued(r)
        /\ Issued(q)
        /\ reqs[r].frees = 1
        /\ reqs[q].frees = 1
        /\ \E t \in Threads : th[t].win_req = q

-----------------------------------------------------------------------------
(* C14: for every group with total N the completed-segment count never     *)
(* exceeds N and exactly one segment completion sees its own increment     *)
(* bring the count to N; that one and no other writes the consolidated     *)
(* event and deletes the group, so the group is deleted exactly once, and  *)
(* the event is written after the bytes of all N segments were added.      *)

\* A thread is between the dequeue of a segment of group g and its increment.
InSegment(g) ==
    \E t \in Threads : th[t].pc = "seg" /\ reqs[th[t].win_req].group_vectored = g

\* Every request of group g is deleted and no thread is at work on it.
Settled(g) ==
    /\ ~crashed
    /\ ~InSegment(g)
    /\ \A r \in DOMAIN reqs : reqs[r].group_vectored = g => reqs[r].st = "freed"

C14_OneClosingCompletion ==
    \A g \in DOMAIN groups :
        LET op == groups[g].original_iocb IN
        /\ groups[g].completed_segments <= groups[g].total_segments
        /\ produced[op] <= 1
        /\ groups[g].frees <= 1
        /\ groups[g].frees = produced[op]
        /\ produced[op] = 1 =>
              /\ groups[g].completed_segments = groups[g].total_segments
              /\ \A r \in DOMAIN reqs :
                    reqs[r].group_vectored = g => reqs[r].st \in {"taken", "freed"}
        /\ Settled(g) =>
              /\ groups[g].completed_segments = groups[g].total_segments
              /\ produced[op] = 1
              /\ groups[g].frees = 1

\* A group of two segments whose completions two threads processed at the same
\* time: one of them closed it, the event is written, the group deleted once.
C14_Witness ==
    \E g \in DOMAIN groups :
        /\ groups[g].total_segments = 2
        /\ groups[g].completed_segments = 2
        /\ groups[g].frees = 1
        /\ groups[g].sum_ok = 2
        /\ produced[groups[g].original_iocb] = 1
        /\ \A t \in Threads :
              /\ th[t].win_req # 0
              /\ reqs[th[t].win_req].group_vectored = g
              /\ th[t].pc = "idle"
        /\ Cardinality({t \in Threads : th[t].ret = 1}) = 1

-----------------------------------------------------------------------------
(* C15: when a segment of a vectored iocb fails its native call at once,   *)
(* the group's total stays nr_segs, so the completed-segment count never   *)
(* reaches it and no completion event is ever written for the iocb,        *)
(* whatever the completions of its other segments do.                      *)

\* Some segment of group g failed its native call at once.
SegmentDropped(g) ==
    \E r \in DOMAIN reqs : reqs[r].group_vectored = g /\ ~Issued(r)

C15_DroppedSegmentNoEvent ==
    \A g \in DOMAIN groups :
        LET op == groups[g].original_iocb IN
        SegmentDropped(g) =>
            /\ groups[g].total_segments = ops[op].iocb.nr_segs
            /\ groups[g].completed_segments < groups[g].total_segments
            /\ produced[op] = 0
            /\ delivered[op] = 0
            /\ EventsFor(op) = {}
            /\ ops[op].env.nomem = 0 => groups[g].frees = 0

\* Two segments, the first dropped by io_submit; the completion of the second
\* was dequeued and processed, and the call that did so returned with no event.
C15_Witness ==
    \E g \in DOMAIN groups :
        /\ SegmentDropped(g)
        /\ Settled(g)
        /\ groups[g].total_segments = 2
        /\ groups[g].completed_segments = 1
        /\ produced[groups[g].original_iocb] = 0
        /\ \E t \in Threads :
              /\ th[t].pc = "idle"
              /\ th[t].win_req # 0
              /\ th[t].ret = 0

-----------------------------------------------------------------------------
-----------------------------------------------------------------------------
(* C17: when a wait on the port fails for another reason than timeout,     *)
(* io_getevents returns the negative errno of the failure at once and no   *)
(* event count, also when earlier iterations of the call had collected     *)
(* events and deleted their requests.                                      *)
C17_WaitFailureReturnsErrno ==
    [][\A t \in Threads :
          (th[t].pc = "wait" /\ th'[t].how = "waitfail") =>
              /\ th'[t].pc = "idle"
              /\ th'[t].ret < 0
              /\ \E last_error \in WaitErrors : th'[t].ret = windows_error_to_errno(last_error)
              /\ th'[t].events = th[t].events
              /\ UNCHANGED <<reqs, groups, produced, delivered, reported>>]_vars

\* A call that had collected one event and deleted its request when its second
\* wait failed: it returned -EBADF and the event reached no caller.
C17_Witness ==
    \E t \in Threads :
        /\ th[t].pc = "idle"
        /\ th[t].how = "waitfail"
        /\ th[t].ret = -EBADF
        /\ Len(th[t].events) = 1
        /\ reqs[th[t].win_req].st = "freed"
        /\ delivered[th[t].events[1].obj] = 0

\* The file offset a native request is issued at: OVERLAPPED's two halves.
FileOffset(overlapped) == overlapped.OffsetHigh * ULONG_MODULUS + overlapped.Offset

\* C18: for a vectored operation with base offset B and segments of lengths
\* L0..L(N-1), the native request of segment k is issued at file offset
\* B + L0 + ... + L(k-1), for every k, also when the native submission of an
\* earlier segment failed.
C18_SegmentOffsets ==
    \A k \in DOMAIN segloop.native :
        FileOffset(segloop.native[k]) =
            segloop.req.offset + SumOver(1..(k - 1), [j \in 1..(k - 1) |-> segloop.req.vec[j]])

\* The second segment's native call is made after the first one's was refused,
\* and the first segment has a length.
C18_Witness ==
    /\ Len(segloop.native) = 2
    /\ ~segloop.native[1].issued
    /\ segloop.req.vec[1] > 0
    /\ segloop.req.offset > 0
    /\ FileOffset(segloop.native[2]) = segloop.req.offset + segloop.req.vec[1]

\* The threads that have accumulated a segment into its group and have not yet
\* passed the increment of completed_segments.
InGroup(t) == th[t].pc = "seg"

\* C19: no request record and no group is read or written after it has been
\* freed: io_getevents dereferences no request after deleting it, no thread
\* touches a group that has been freed, and io_submit frees no group that
\* segment requests in flight refer to.
C19_NoUseAfterFree ==
    /\ ~crashed
    /\ \A t \in Threads :
          InGroup(t) => groups[reqs[th[t].win_req].group_vectored].st = "live"
    /\ \A r \in DOMAIN reqs :
          (reqs[r].type = VECTORED_SEGMENT /\ reqs[r].st \in {"pending", "queued"})
              => groups[reqs[r].group_vectored].st = "live"

\* Every allocation of io_submit succeeded, and the read of the deleted request
\* after the closing segment has faulted.
C19_Witness ==
    /\ crashed
    /\ \A op \in DOMAIN ops : ops[op].env.nomem = 0
    /\ \A g \in DOMAIN groups : groups[g].st = "live"

\* Thread t dequeues a completion in this step.
Dequeues(t) ==
    /\ th[t].pc = "wait"
    /\ th'[t] # th[t]
    /\ \E r \in Queued : reqs'[r].st # "queued" /\ th'[t].win_req = r

\* C20: within one call of io_getevents at most one native completion is
\* dequeued once min_nr events are collected, whether that completion yields
\* an event or is a non-final segment's: the iteration of such a dequeue ends
\* the call.  Hence a call returns at most min(nr, min_nr + 1) events, and a
\* call with min_nr = 0 ends with its first dequeue, with at most one event,
\* also when more completions are queued.
C20_OneDequeueAfterMinimum ==
    [][\A t \in Threads :
         /\ (Dequeues(t) /\ Len(th[t].events) >= th[t].min_nr)
               => th'[t].pc \in {"idle", "seg"}
         /\ (th[t].pc = "seg" /\ th[t].at_wait >= th[t].min_nr /\ th'[t] # th[t])
               => th'[t].pc = "idle"
         /\ (th[t].pc # "idle" /\ th'[t].pc = "idle")
               => /\ th'[t].ret <= th[t].nr
                  /\ th'[t].ret <= th[t].min_nr + 1
                  /\ th[t].min_nr = 0 => th'[t].ret <= 1]_vars

\* A call with min_nr = 0 has dequeued the packet of a non-final segment and
\* returned at once, with no event, while another packet is queued.
C20_Witness ==
    \E t \in Threads :
        /\ th[t].pc = "idle"
        /\ th[t].how = "minmet"
        /\ th[t].min_nr = 0
        /\ th[t].ret = 0
        /\ th[t].win_req # 0
        /\ reqs[th[t].win_req].type = VECTORED_SEGMENT
        /\ groups[reqs[th[t].win_req].group_vectored].st = "live"
        /\ Queued # {}

====
